---- MODULE Spec2Model ----
(***************************************************************************)
(* Model of the parking monitors parcocity_parking.py and rycom_parking.py *)
(* Two specifications:                                                     *)
(*   SpecPure  applies _pct_to_status, _parse_pct and try_color_analysis   *)
(*             to bounded inputs;                                          *)
(*   Spec      runs main() of either script statement by statement.        *)
(***************************************************************************)
EXTENDS Integers, Sequences, FiniteSets, TLC

VARIABLES
    script,         \* which script runs: "parcocity" | "rycom" | "pure"
    args,           \* parsed command line: [loop, status_file]
    tesseract,      \* _TESSERACT_AVAILABLE (rycom)
    pc,             \* position of main()
    body,           \* what the fetch returned (html / gif), or NoBody
    snapshot,       \* the ParkingSnapshot of the current iteration
    count,          \* main's local `count` (parcocity)
    logged,         \* the count written by the final log line, None before
    exit_code,      \* process exit status, None while running
    csvExists,      \* data/parking_log.csv exists
    csv,            \* lines of data/parking_log.csv
    jsonl,          \* lines of data/parking_log.jsonl
    statusJson,     \* content of the --status-file, <<>> if never written
    iters,          \* history: iterations started
    sleeps,         \* history: sleeps finished
    completed,      \* history: iterations whose fetch and save both finished
    interruptedAt,  \* history: pc at which KeyboardInterrupt was raised
    ocrOut,         \* history: what try_ocr returned
    colorOut,       \* history: what try_color_analysis returned
    fn,             \* SpecPure: the helper applied
    arg,            \* SpecPure: its argument
    res             \* SpecPure: its result

vars == <<script, args, tesseract, pc, body, snapshot, count, logged,
          exit_code, csvExists, csv, jsonl, statusJson, iters, sleeps,
          completed, interruptedAt, ocrOut, colorOut, fn, arg, res>>

\* ------------------------------------------------------------------------
\* Bounds
\* ------------------------------------------------------------------------
MaxPct == 120
MaxLen == 4
MaxOcrLen == 3
MaxPix == 2
MaxIter == 3
MaxPixels == 3

\* ------------------------------------------------------------------------
\* Values
\* ------------------------------------------------------------------------
\* Python's None for Optional[int]
None == -1

FETCH_INTERVAL_SEC == 300

Digits == {"0", "1", "2", "3", "4", "5", "6", "7", "8", "9"}
Spaces == {" ", "\n"}

IsDigit(c) == c \in Digits
IsSpace(c) == c \in Spaces
\* \w of the re module: letters, digits, underscore
IsWord(c) == c \notin Spaces /\ c # "%"

DigitVal(c) ==
    CASE c = "0" -> 0 [] c = "1" -> 1 [] c = "2" -> 2 [] c = "3" -> 3
      [] c = "4" -> 4 [] c = "5" -> 5 [] c = "6" -> 6 [] c = "7" -> 7
      [] c = "8" -> 8 [] c = "9" -> 9

\* int(s) for a string of decimal digits
RECURSIVE ToInt(_)
ToInt(s) ==
    IF s = <<>> THEN 0
    ELSE 10 * ToInt(SubSeq(s, 1, Len(s) - 1)) + DigitVal(s[Len(s)])

\* all sequences over S of length at most n
RECURSIVE SeqsUpTo(_, _)
SeqsUpTo(S, n) ==
    IF n = 0 THEN {<<>>}
    ELSE LET shorter == SeqsUpTo(S, n - 1)
         IN  shorter \cup {Append(s, c) : s \in {t \in shorter : Len(t) = n - 1}, c \in S}

\* ------------------------------------------------------------------------
\* _pct_to_status (one copy per script)
\* ------------------------------------------------------------------------
ParcoPctToStatusOffByOne(pct) ==
    IF pct >= 100 THEN "full"
    ELSE IF pct > 80 THEN "almost_full"
    ELSE IF pct >= 50 THEN "crowded"
    ELSE "available"

ParcoPctToStatus(pct) ==
    IF pct >= 100 THEN "full"
    ELSE IF pct >= 80 THEN "almost_full"
    ELSE IF pct >= 50 THEN "crowded"
    ELSE "available"

RycomPctToStatus(pct) ==
    IF pct >= 100 THEN "full"
    ELSE IF pct >= 80 THEN "almost_full"
    ELSE IF pct >= 50 THEN "crowded"
    ELSE "available"

\* ------------------------------------------------------------------------
\* _parse_pct (rycom)
\* ------------------------------------------------------------------------
\* number of characters of text from position i on that satisfy \s
RECURSIVE SpaceRun(_, _)
SpaceRun(text, i) ==
    IF i > Len(text) \/ ~IsSpace(text[i]) THEN 0
    ELSE 1 + SpaceRun(text, i + 1)

\* text[i .. i+k-1] are k digits
DigitsAt(text, i, k) ==
    /\ i + k - 1 <= Len(text)
    /\ \A j \in i .. (i + k - 1) : IsDigit(text[j])

\* _PCT_RE = (\d{1,3})\s*% matched at position i with a group of k digits
PctReMatches(text, i, k) ==
    /\ DigitsAt(text, i, k)
    /\ LET j == i + k + SpaceRun(text, i + k)
       IN  j <= Len(text) /\ text[j] = "%"

\* length of group(1) of the match at i, greedy, 0 when there is none
PctReAt(text, i) ==
    IF PctReMatches(text, i, 3) THEN 3
    ELSE IF PctReMatches(text, i, 2) THEN 2
    ELSE IF PctReMatches(text, i, 1) THEN 1
    ELSE 0

\* _PCT_RE.search(text): group(1) of the leftmost match, <<>> when no match
RECURSIVE PctReSearch(_, _)
PctReSearch(text, i) ==
    IF i > Len(text) THEN <<>>
    ELSE IF PctReAt(text, i) > 0 THEN SubSeq(text, i, i + PctReAt(text, i) - 1)
    ELSE PctReSearch(text, i + 1)

\* \b at the gap before position i
WordBoundary(text, i) ==
    LET before == i > 1 /\ i - 1 <= Len(text) /\ IsWord(text[i - 1])
        after  == i >= 1 /\ i <= Len(text) /\ IsWord(text[i])
    IN  before # after

\* \b(\d{1,3})\b matched at position i with k digits
TokenMatches(text, i, k) ==
    /\ WordBoundary(text, i)
    /\ DigitsAt(text, i, k)
    /\ WordBoundary(text, i + k)

TokenAt(text, i) ==
    IF TokenMatches(text, i, 3) THEN 3
    ELSE IF TokenMatches(text, i, 2) THEN 2
    ELSE IF TokenMatches(text, i, 1) THEN 1
    ELSE 0

\* re.findall(r"\b(\d{1,3})\b", text): the non-overlapping matches, in order
RECURSIVE FindTokens(_, _)
FindTokens(text, i) ==
    IF i > Len(text) THEN <<>>
    ELSE IF TokenAt(text, i) > 0
         THEN <<SubSeq(text, i, i + TokenAt(text, i) - 1)>>
                  \o FindTokens(text, i + TokenAt(text, i))
    ELSE FindTokens(text, i + 1)

\* the for loop of _parse_pct: first token whose value is in [0, 100]
RECURSIVE FirstInRange(_)
FirstInRange(tokens) ==
    IF tokens = <<>> THEN None
    ELSE IF 0 <= ToInt(Head(tokens)) /\ ToInt(Head(tokens)) <= 100
         THEN ToInt(Head(tokens))
    ELSE FirstInRange(Tail(tokens))

ParsePctNoRangeCheck(text) ==
    LET m == PctReSearch(text, 1)
    IN  IF m # <<>> THEN ToInt(m)
        ELSE FirstInRange(FindTokens(text, 1))

ParsePct(text) ==
    LET m == PctReSearch(text, 1)
    IN  IF m # <<>> /\ 0 <= ToInt(m) /\ ToInt(m) <= 100 THEN ToInt(m)
        ELSE FirstInRange(FindTokens(text, 1))

\* str.strip()
RECURSIVE LStrip(_)
LStrip(s) == IF s # <<>> /\ IsSpace(Head(s)) THEN LStrip(Tail(s)) ELSE s
RECURSIVE RStrip(_)
RStrip(s) ==
    IF s # <<>> /\ IsSpace(s[Len(s)]) THEN RStrip(SubSeq(s, 1, Len(s) - 1)) ELSE s
Strip(s) == RStrip(LStrip(s))

\* ------------------------------------------------------------------------
\* _OCCUPANCY_RE = /parking_(\d+)per\.svg  (parcocity)
\* A src is a sequence of pieces: the literal "/parking_", the literal
\* "per.svg", single digits, and other text "x".
\* ------------------------------------------------------------------------
RECURSIVE DigitRun(_, _)
DigitRun(src, i) ==
    IF i > Len(src) \/ ~IsDigit(src[i]) THEN 0
    ELSE 1 + DigitRun(src, i + 1)

\* the match at position i: number of digits of group(1), 0 when none
OccupancyReAt(src, i) ==
    IF /\ src[i] = "/parking_"
       /\ DigitRun(src, i + 1) >= 1
       /\ i + 1 + DigitRun(src, i + 1) <= Len(src)
       /\ src[i + 1 + DigitRun(src, i + 1)] = "per.svg"
    THEN DigitRun(src, i + 1)
    ELSE 0

\* _OCCUPANCY_RE.search(src): group(1) of the leftmost match, <<>> when none
RECURSIVE OccupancyReSearch(_, _)
OccupancyReSearch(src, i) ==
    IF i > Len(src) THEN <<>>
    ELSE IF OccupancyReAt(src, i) > 0
         THEN SubSeq(src, i + 1, i + OccupancyReAt(src, i))
    ELSE OccupancyReSearch(src, i + 1)

\* ------------------------------------------------------------------------
\* Data model
\* ------------------------------------------------------------------------
NoBody == [kind |-> "none"]

\* ParkingSnapshot(): fetched_at is the clock reading, here the number of
\* the iteration that constructs the snapshot
NewSnapshot(now) ==
    [fetched_at |-> now, sections |-> <<>>, fetch_ok |-> TRUE, error_msg |-> ""]

\* the except branch of get_parking_snapshot (both scripts)
Failed(snap, msg) == [snap EXCEPT !.fetch_ok = FALSE, !.error_msg = msg]

\* str(exc) of what the fetch or the parser can raise; an exception raised
\* without arguments (MemoryError) has the empty string
ExcMsgs == {"", "404 Client Error"}

\* ------------------------------------------------------------------------
\* parcocity: parse_parking_html
\* ------------------------------------------------------------------------
ParcoSection(pct, status, src) ==
    [name |-> "parcocity", occupancy_pct |-> pct, status |-> status, img_src |-> src]

ParseParkingHtml(html) ==
    IF ~html.container THEN <<ParcoSection(None, "unknown", <<>>)>>
    ELSE IF ~html.img THEN <<ParcoSection(None, "unknown", <<>>)>>
    ELSE LET match == OccupancyReSearch(html.src, 1)
         IN  IF match = <<>> THEN <<ParcoSection(None, "unknown", html.src)>>
             ELSE <<ParcoSection(ToInt(match), ParcoPctToStatus(ToInt(match)), html.src)>>

\* the img src values the page is observed with
Srcs ==
    { <<>>, <<"x">>,
      <<"/parking_", "0", "per.svg">>,
      <<"x", "/parking_", "8", "0", "per.svg">>,
      <<"/parking_", "1", "0", "0", "per.svg">>,
      <<"/parking_", "1", "5", "0", "per.svg">> }

Htmls ==
    { [kind |-> "html", container |-> FALSE, img |-> FALSE, src |-> <<>>],
      [kind |-> "html", container |-> TRUE, img |-> FALSE, src |-> <<>>] }
    \cup { [kind |-> "html", container |-> TRUE, img |-> TRUE, src |-> s] : s \in Srcs }

\* ------------------------------------------------------------------------
\* parcocity: the files
\* ------------------------------------------------------------------------
\* the record save_status_json and save_jsonl serialise
JsonRecord(snap) ==
    [fetched_at |-> snap.fetched_at, fetch_ok |-> snap.fetch_ok,
     error_msg |-> snap.error_msg, sections |-> snap.sections]

CsvHeader ==
    [kind |-> "header",
     cells |-> <<"fetched_at", "section_name", "occupancy_pct", "status", "img_src">>]

\* one writer.writerow; an occupancy_pct of None is written as an empty cell
CsvRow(snap, s) ==
    [kind |-> "row",
     cells |-> <<snap.fetched_at, s.name, s.occupancy_pct, s.status, s.img_src>>]

CsvRows(snap) == [i \in 1 .. Len(snap.sections) |-> CsvRow(snap, snap.sections[i])]

\* the lines save_csv appends to the file
SaveCsvLinesAlwaysHeader(exists, snap) == <<CsvHeader>> \o CsvRows(snap)

SaveCsvLines(exists, snap) ==
    (IF ~exists THEN <<CsvHeader>> ELSE <<>>) \o CsvRows(snap)

\* ------------------------------------------------------------------------
\* rycom: try_color_analysis
\* ------------------------------------------------------------------------
BucketOrder == <<"red", "orange", "yellow", "green", "other">>
Buckets == {BucketOrder[i] : i \in 1 .. Len(BucketOrder)}

\* max(counts, key=counts.get): the first key, in insertion order, whose
\* count no other key exceeds
Dominant(counts) ==
    LET best == {i \in 1 .. Len(BucketOrder) :
                    \A j \in 1 .. Len(BucketOrder) :
                        counts[BucketOrder[j]] <= counts[BucketOrder[i]]}
        first == CHOOSE i \in best : \A j \in best : i <= j
    IN  BucketOrder[first]

\* _COLOR_STATUS.get(dominant, "unknown")
ColorStatus(color) ==
    CASE color = "green" -> "available"
      [] color = "yellow" -> "crowded"
      [] color = "orange" -> "almost_full"
      [] color = "red" -> "full"
      [] OTHER -> "unknown"

\* the result for a decoded image whose informative pixels were counted
ColorOfCounts(counts) ==
    IF counts[Dominant(counts)] = 0 THEN <<"unknown", "none">>
    ELSE <<ColorStatus(Dominant(counts)), Dominant(counts)>>

\* the result when decoding raised
ColorError == <<"unknown", "error">>

\* _classify_hue: hue angle in degrees to a bucket
ClassifyHueRedUpTo15(hue_deg) ==
    IF hue_deg <= 15 \/ hue_deg >= 345 THEN "red"
    ELSE IF hue_deg < 45 THEN "orange"
    ELSE IF hue_deg < 75 THEN "yellow"
    ELSE IF hue_deg < 165 THEN "green"
    ELSE "other"

ClassifyHue(hue_deg) ==
    IF hue_deg < 15 \/ hue_deg >= 345 THEN "red"
    ELSE IF hue_deg < 45 THEN "orange"
    ELSE IF hue_deg < 75 THEN "yellow"
    ELSE IF hue_deg < 165 THEN "green"
    ELSE "other"

\* a pixel is [hue, s, v]: hue in degrees, saturation and value in tenths;
\* `if s < 0.3 or v < 0.3: continue` skips it
Skipped(px) == px.s < 3 \/ px.v < 3

\* the counting loops over the pixels of the central region, in scan order
RECURSIVE CountPixels(_)
CountPixels(pixels) ==
    IF pixels = <<>> THEN [b \in Buckets |-> 0]
    ELSE LET rest == CountPixels(SubSeq(pixels, 1, Len(pixels) - 1))
             px   == pixels[Len(pixels)]
         IN  IF Skipped(px) THEN rest
             ELSE [rest EXCEPT ![ClassifyHue(px.hue)] = @ + 1]

\* try_color_analysis on a decoded image, given the pixels of its central
\* region
TryColorAnalysis(pixels) == ColorOfCounts(CountPixels(pixels))

\* ------------------------------------------------------------------------
\* rycom: get_parking_snapshot
\* ------------------------------------------------------------------------
\* {"available": 25, "crowded": 65, "almost_full": 85, "full": 100}.get(status)
PctEstimateCrowded50(status) ==
    CASE status = "available" -> 25
      [] status = "crowded" -> 45
      [] status = "almost_full" -> 85
      [] status = "full" -> 100
      [] OTHER -> None

PctEstimate(status) ==
    CASE status = "available" -> 25
      [] status = "crowded" -> 65
      [] status = "almost_full" -> 85
      [] status = "full" -> 100
      [] OTHER -> None

RycomSection(pct, status, raw, method) ==
    [name |-> "rycom", occupancy_pct |-> pct, status |-> status,
     raw_ocr |-> raw, detection_method |-> method]

\* the section built when try_ocr returned a percentage
OcrSectionAsColor(pct, raw) == RycomSection(pct, RycomPctToStatus(pct), raw, "color")

OcrSection(pct, raw) == RycomSection(pct, RycomPctToStatus(pct), raw, "ocr")

\* the section built from the result of try_color_analysis
ColorSection(raw, col) ==
    RycomSection(PctEstimate(col[1]), col[1],
                 IF raw # <<>> THEN raw ELSE <<"dominant_color=", col[2]>>,
                 "color")

\* what the recognition engine can read from an image
OcrChars == {"0", "1", "5", "%", " ", "a"}
OcrTexts == SeqsUpTo(OcrChars, MaxOcrLen)

\* ------------------------------------------------------------------------
\* Spec: main() of either script
\* ------------------------------------------------------------------------
Init ==
    /\ script \in {"parcocity", "rycom"}
    /\ args \in [loop : BOOLEAN, status_file : BOOLEAN]
    /\ script = "rycom" => ~args.loop          \* rycom has no --loop
    /\ tesseract \in BOOLEAN
    /\ script = "parcocity" => ~tesseract      \* not used by parcocity
    /\ pc = "fetch"
    /\ body = NoBody
    /\ snapshot = NewSnapshot(0)
    /\ count = 0
    /\ logged = None
    /\ exit_code = None
    /\ csvExists = FALSE
    /\ csv = <<>>
    /\ jsonl = <<>>
    /\ statusJson = <<>>
    /\ iters = 0
    /\ sleeps = 0
    /\ completed = 0
    /\ interruptedAt = "never"
    /\ ocrOut = <<None, <<>>>>
    /\ colorOut = <<"unknown", "not_run">>
    /\ fn = "none"
    /\ arg = <<>>
    /\ res = <<>>

pureVars == <<fn, arg, res>>
fileVars == <<csvExists, csv, jsonl, statusJson>>
rycomVars == <<tesseract, ocrOut, colorOut>>

\* ---- parcocity ----------------------------------------------------------
\* get_parking_snapshot, first half: ParkingSnapshot() and fetch_html
ParcoFetch ==
    /\ script = "parcocity" /\ pc = "fetch"
    /\ iters < MaxIter
    /\ iters' = iters + 1
    /\ \/ \E html \in Htmls :
            /\ body' = html
            /\ snapshot' = NewSnapshot(iters + 1)
            /\ pc' = "parse"
       \/ \E msg \in ExcMsgs :
            /\ body' = NoBody
            /\ snapshot' = Failed(NewSnapshot(iters + 1), msg)
            /\ pc' = "print"
    /\ UNCHANGED <<script, args, count, logged, exit_code, sleeps, completed,
                   interruptedAt>>
    /\ UNCHANGED <<fileVars, rycomVars, pureVars>>

\* get_parking_snapshot, second half: parse_parking_html, which returns the
\* sections or raises (BeautifulSoup without its parser, int() of a huge run)
ParcoParse ==
    /\ script = "parcocity" /\ pc = "parse"
    /\ \/ snapshot' = [snapshot EXCEPT !.sections = ParseParkingHtml(body)]
       \/ \E msg \in ExcMsgs : snapshot' = Failed(snapshot, msg)
    /\ pc' = "print"
    /\ UNCHANGED <<script, args, body, count, logged, exit_code, iters, sleeps,
                   completed, interruptedAt>>
    /\ UNCHANGED <<fileVars, rycomVars, pureVars>>

\* _print_snapshot, then the choice of the writer
ParcoPrint ==
    /\ script = "parcocity" /\ pc = "print"
    /\ pc' = IF args.status_file THEN "save_status" ELSE "save_jsonl"
    /\ UNCHANGED <<script, args, body, snapshot, count, logged, exit_code,
                   iters, sleeps, completed, interruptedAt>>
    /\ UNCHANGED <<fileVars, rycomVars, pureVars>>

\* save_status_json: overwrite
ParcoSaveStatus ==
    /\ script = "parcocity" /\ pc = "save_status"
    /\ statusJson' = <<JsonRecord(snapshot)>>
    /\ completed' = completed + 1
    /\ pc' = "count"
    /\ UNCHANGED <<script, args, body, snapshot, count, logged, exit_code,
                   iters, sleeps, interruptedAt, csvExists, csv, jsonl>>
    /\ UNCHANGED <<rycomVars, pureVars>>

\* save_jsonl: append one line
SaveJsonl ==
    /\ script = "parcocity" /\ pc = "save_jsonl"
    /\ jsonl' = Append(jsonl, JsonRecord(snapshot))
    /\ pc' = "save_csv"
    /\ UNCHANGED <<script, args, body, snapshot, count, logged, exit_code,
                   iters, sleeps, completed, interruptedAt, csvExists, csv,
                   statusJson>>
    /\ UNCHANGED <<rycomVars, pureVars>>

\* save_csv: open for append (creating the file), header if the file was
\* absent, one row per section
SaveCsv ==
    /\ script = "parcocity" /\ pc = "save_csv"
    /\ csv' = csv \o SaveCsvLines(csvExists, snapshot)
    /\ csvExists' = TRUE
    /\ completed' = completed + 1
    /\ pc' = "count"
    /\ UNCHANGED <<script, args, body, snapshot, count, logged, exit_code,
                   iters, sleeps, interruptedAt, jsonl, statusJson>>
    /\ UNCHANGED <<rycomVars, pureVars>>

\* count += 1
CountUp ==
    /\ script = "parcocity" /\ pc = "count"
    /\ count' = count + 1
    /\ pc' = "check_loop"
    /\ UNCHANGED <<script, args, body, snapshot, logged, exit_code, iters,
                   sleeps, completed, interruptedAt>>
    /\ UNCHANGED <<fileVars, rycomVars, pureVars>>

CheckLoopStopsOnFailure ==
    /\ script = "parcocity" /\ pc = "check_loop"
    /\ pc' = IF args.loop /\ snapshot.fetch_ok THEN "sleep" ELSE "end"
    /\ UNCHANGED <<script, args, body, snapshot, count, logged, exit_code,
                   iters, sleeps, completed, interruptedAt>>
    /\ UNCHANGED <<csvExists, csv, jsonl, statusJson, tesseract, ocrOut,
                   colorOut, fn, arg, res>>

\* if not args.loop: break
CheckLoop ==
    /\ script = "parcocity" /\ pc = "check_loop"
    /\ pc' = IF args.loop THEN "sleep" ELSE "end"
    /\ UNCHANGED <<script, args, body, snapshot, count, logged, exit_code,
                   iters, sleeps, completed, interruptedAt>>
    /\ UNCHANGED <<fileVars, rycomVars, pureVars>>

\* time.sleep(FETCH_INTERVAL_SEC), then the next turn of while True
Sleep ==
    /\ script = "parcocity" /\ pc = "sleep"
    /\ FETCH_INTERVAL_SEC > 0
    /\ sleeps' = sleeps + 1
    /\ pc' = "fetch"
    /\ UNCHANGED <<script, args, body, snapshot, count, logged, exit_code,
                   iters, completed, interruptedAt>>
    /\ UNCHANGED <<fileVars, rycomVars, pureVars>>

\* the positions inside the try block of main
TryPcs == {"fetch", "parse", "print", "save_status", "save_jsonl", "save_csv",
           "count", "check_loop", "sleep"}

\* KeyboardInterrupt raised at the current statement, before it takes
\* effect, and caught by the except clause of main
KeyboardInterrupt ==
    /\ script = "parcocity" /\ pc \in TryPcs
    /\ interruptedAt' = pc
    /\ pc' = "end"
    /\ UNCHANGED <<script, args, body, snapshot, count, logged, exit_code,
                   iters, sleeps, completed>>
    /\ UNCHANGED <<fileVars, rycomVars, pureVars>>

\* the final log line with count; main returns and the interpreter exits
ParcoFinish ==
    /\ script = "parcocity" /\ pc = "end"
    /\ logged' = count
    /\ exit_code' = 0
    /\ pc' = "done"
    /\ UNCHANGED <<script, args, body, snapshot, count, iters, sleeps,
                   completed, interruptedAt>>
    /\ UNCHANGED <<fileVars, rycomVars, pureVars>>

\* ---- rycom --------------------------------------------------------------
mainVars == <<script, args, count, logged, sleeps, completed, interruptedAt>>

\* get_parking_snapshot: ParkingSnapshot() and fetch_parking_gif; the bytes
\* are a decodable image or not (an error page served with status 200)
RycomFetch ==
    /\ script = "rycom" /\ pc = "fetch"
    /\ iters' = iters + 1
    /\ \/ \E d \in BOOLEAN :
            /\ body' = [kind |-> "gif", decodable |-> d]
            /\ snapshot' = NewSnapshot(iters + 1)
            /\ pc' = "ocr"
       \/ \E msg \in ExcMsgs :
            /\ body' = NoBody
            /\ snapshot' = Failed(NewSnapshot(iters + 1), msg)
            /\ pc' = "print"
    /\ UNCHANGED <<mainVars, exit_code, fileVars, rycomVars, pureVars>>

\* try_ocr and the branch on its result
TryOcr ==
    /\ script = "rycom" /\ pc = "ocr"
    /\ \E out \in
            IF ~tesseract THEN {<<None, <<>>>>}                  \* engine absent
            ELSE IF ~body.decodable THEN {<<None, <<>>>>}        \* Image.open raises
            ELSE {<<None, <<>>>>}                                \* image_to_string raises
                 \cup {<<ParsePct(raw), Strip(raw)>> : raw \in OcrTexts} :
         /\ ocrOut' = out
         /\ IF out[1] # None
            THEN /\ snapshot' = [snapshot EXCEPT !.sections = <<OcrSection(out[1], out[2])>>]
                 /\ pc' = "print"
            ELSE /\ snapshot' = snapshot
                 /\ pc' = "color"
    /\ UNCHANGED <<mainVars, body, exit_code, iters, tesseract, colorOut,
                   fileVars, pureVars>>

\* try_color_analysis and the section built from its result
TryColor ==
    /\ script = "rycom" /\ pc = "color"
    /\ \E col \in
            IF ~body.decodable THEN {ColorError}
            ELSE {ColorOfCounts(c) : c \in [Buckets -> 0 .. MaxPix]} :
         /\ colorOut' = col
         /\ snapshot' = [snapshot EXCEPT !.sections = <<ColorSection(ocrOut[2], col)>>]
    /\ pc' = "print"
    /\ UNCHANGED <<mainVars, body, exit_code, iters, tesseract, ocrOut,
                   fileVars, pureVars>>

\* _print_snapshot, then the test of args.status_file
RycomPrint ==
    /\ script = "rycom" /\ pc = "print"
    /\ pc' = IF args.status_file THEN "save_status" ELSE "end"
    /\ UNCHANGED <<mainVars, body, snapshot, exit_code, iters, fileVars,
                   rycomVars, pureVars>>

\* save_status_json: overwrite
RycomSaveStatus ==
    /\ script = "rycom" /\ pc = "save_status"
    /\ statusJson' = <<JsonRecord(snapshot)>>
    /\ pc' = "end"
    /\ UNCHANGED <<mainVars, body, snapshot, exit_code, iters, csvExists, csv,
                   jsonl, rycomVars, pureVars>>

\* main returns and the interpreter exits
RycomFinish ==
    /\ script = "rycom" /\ pc = "end"
    /\ exit_code' = 0
    /\ pc' = "done"
    /\ UNCHANGED <<mainVars, body, snapshot, iters, fileVars, rycomVars,
                   pureVars>>

Next ==
    \/ ParcoFetch \/ ParcoParse \/ ParcoPrint \/ ParcoSaveStatus \/ SaveJsonl
    \/ SaveCsv \/ CountUp \/ CheckLoop \/ Sleep \/ KeyboardInterrupt
    \/ ParcoFinish
    \/ RycomFetch \/ TryOcr \/ TryColor \/ RycomPrint \/ RycomSaveStatus
    \/ RycomFinish

Spec == Init /\ [][Next]_vars

\* ------------------------------------------------------------------------
\* SpecPure: the pure helpers applied to bounded inputs
\* ------------------------------------------------------------------------
Str50Pct == <<"5", "0", "%">>
StrOccupancy100 ==
    <<"O", "c", "c", "u", "p", "a", "n", "c", "y", " ", "1", "0", "0", " ", "%">>
StrAbc == <<"a", "b", "c">>
Str150Pct == <<"1", "5", "0", "%">>
Str7 == <<"7">>
Str150Pct30Pct == <<"1", "5", "0", "%", " ", "3", "0", "%">>
Str150Then7 == <<"1", "5", "0", " ", "7">>
Str1050Pct == <<"1", "0", "5", "0", "%">>

ExampleTexts ==
    {Str50Pct, StrOccupancy100, StrAbc, Str150Pct, Str7, Str150Pct30Pct,
     Str150Then7, Str1050Pct}

Texts == SeqsUpTo(OcrChars, MaxLen) \cup ExampleTexts

\* the pixels an image is made of: every bucket boundary at the lowest
\* saturation and value that count, and two pixels that are skipped
Hues == {0, 14, 15, 44, 45, 74, 75, 164, 165, 344, 345}
Pixels ==
    {[hue |-> h, s |-> 3, v |-> 3] : h \in Hues}
    \cup {[hue |-> 0, s |-> 2, v |-> 9], [hue |-> 100, s |-> 9, v |-> 2]}
Images == SeqsUpTo(Pixels, MaxPixels)

InitPure ==
    /\ script = "pure"
    /\ \/ fn = "pct_to_status" /\ arg \in 0 .. MaxPct
       \/ fn = "parse_pct" /\ arg \in Texts
       \/ fn = "color_analysis" /\ arg \in Images
    /\ res = <<>>
    /\ pc = "call"
    /\ args = [loop |-> FALSE, status_file |-> FALSE]
    /\ tesseract = FALSE
    /\ body = NoBody
    /\ snapshot = NewSnapshot(0)
    /\ count = 0
    /\ logged = None
    /\ exit_code = None
    /\ csvExists = FALSE
    /\ csv = <<>>
    /\ jsonl = <<>>
    /\ statusJson = <<>>
    /\ iters = 0
    /\ sleeps = 0
    /\ completed = 0
    /\ interruptedAt = "never"
    /\ ocrOut = <<None, <<>>>>
    /\ colorOut = <<"unknown", "not_run">>

scriptVars == <<script, args, tesseract, body, snapshot, count, logged,
                exit_code, csvExists, csv, jsonl, statusJson, iters, sleeps,
                completed, interruptedAt, ocrOut, colorOut>>

\* _pct_to_status of both scripts on the same percentage
ApplyPctToStatus ==
    /\ pc = "call" /\ fn = "pct_to_status"
    /\ res' = [parcocity |-> ParcoPctToStatus(arg), rycom |-> RycomPctToStatus(arg)]
    /\ pc' = "return"
    /\ UNCHANGED <<fn, arg, scriptVars>>

\* _parse_pct
ApplyParsePct ==
    /\ pc = "call" /\ fn = "parse_pct"
    /\ res' = <<ParsePct(arg)>>
    /\ pc' = "return"
    /\ UNCHANGED <<fn, arg, scriptVars>>

\* try_color_analysis on a decodable image
ApplyColorAnalysis ==
    /\ pc = "call" /\ fn = "color_analysis"
    /\ res' = TryColorAnalysis(arg)
    /\ pc' = "return"
    /\ UNCHANGED <<fn, arg, scriptVars>>

NextPure == ApplyPctToStatus \/ ApplyParsePct \/ ApplyColorAnalysis

SpecPure == InitPure /\ [][NextPure]_vars

\* ------------------------------------------------------------------------
\* Properties
\* ------------------------------------------------------------------------
Statuses == {"available", "crowded", "almost_full", "full"}

PctToStatusReturned == pc = "return" /\ fn = "pct_to_status"

\* C1: for every percentage, both copies of _pct_to_status return the same
\* one of the four statuses: full from 100, almost_full on 80..99, crowded on
\* 50..79, available below 50.
C1_PctToStatus ==
    PctToStatusReturned =>
        /\ res.parcocity = res.rycom
        /\ res.parcocity \in Statuses
        /\ (res.parcocity = "full") = (arg >= 100)
        /\ (res.parcocity = "almost_full") = (80 <= arg /\ arg < 100)
        /\ (res.parcocity = "crowded") = (50 <= arg /\ arg < 80)
        /\ (res.parcocity = "available") = (arg < 50)

C1_Witness ==
    PctToStatusReturned /\ arg = 80 /\ res.parcocity = "almost_full"
        /\ res.rycom = "almost_full"

\* ---- the reading of _parse_pct given by its description -------------------
\* occurrences <<start, digits>> of "1-3 digits, optional whitespace, %"
PctOccurrences(text) ==
    {o \in (1 .. Len(text)) \X (1 .. 3) :
        /\ o[1] + o[2] - 1 <= Len(text)
        /\ \A j \in o[1] .. (o[1] + o[2] - 1) : text[j] \in Digits
        /\ \E e \in (o[1] + o[2]) .. Len(text) :
              /\ text[e] = "%"
              /\ \A j \in (o[1] + o[2]) .. (e - 1) : text[j] \in Spaces}

\* standalone tokens <<start, digits>>: 1-3 digits with no word character
\* on either side
StandaloneTokens(text) ==
    {o \in (1 .. Len(text)) \X (1 .. 3) :
        /\ o[1] + o[2] - 1 <= Len(text)
        /\ \A j \in o[1] .. (o[1] + o[2] - 1) : text[j] \in Digits
        /\ (o[1] = 1 \/ ~IsWord(text[o[1] - 1]))
        /\ (o[1] + o[2] - 1 = Len(text) \/ ~IsWord(text[o[1] + o[2]]))}

ValueOf(text, o) == ToInt(SubSeq(text, o[1], o[1] + o[2] - 1))

\* the leftmost element of a non-empty set of occurrences
First(occs) == CHOOSE o \in occs : \A q \in occs : o[1] <= q[1]

DescribedParsePct(text) ==
    LET occs == PctOccurrences(text)
        toks == {o \in StandaloneTokens(text) : ValueOf(text, o) <= 100}
    IN  IF occs # {} /\ ValueOf(text, First(occs)) <= 100
        THEN ValueOf(text, First(occs))
        ELSE IF toks # {} THEN ValueOf(text, First(toks))
        ELSE None

ParsePctReturned == pc = "return" /\ fn = "parse_pct"

\* C7: _parse_pct returns the number of the first "digits %" occurrence when
\* it is in [0,100], otherwise the first standalone 1-3 digit token in
\* [0,100], otherwise none; so the result is none or in [0,100], and
\* "50%" -> 50, "Occupancy 100 %" -> 100, "abc" -> none, "150%" -> none,
\* "7" -> 7.
C7_ParsePct ==
    ParsePctReturned =>
        /\ res[1] = DescribedParsePct(arg)
        /\ res[1] = None \/ (0 <= res[1] /\ res[1] <= 100)
        /\ arg = Str50Pct => res[1] = 50
        /\ arg = StrOccupancy100 => res[1] = 100
        /\ arg = StrAbc => res[1] = None
        /\ arg = Str150Pct => res[1] = None
        /\ arg = Str7 => res[1] = 7

\* an out-of-range "150%" is passed over and the later token 30 is returned
C7_Witness ==
    ParsePctReturned /\ arg = Str150Pct30Pct /\ res[1] = 30

\* ---- get_parking_snapshot ----------------------------------------------
\* get_parking_snapshot has returned the current snapshot
Returned ==
    /\ script \in {"parcocity", "rycom"}
    /\ iters >= 1
    /\ pc \notin {"fetch", "parse", "ocr", "color"}
    /\ interruptedAt \notin {"fetch", "parse"}

SectionsOf(snap) == {snap.sections[i] : i \in 1 .. Len(snap.sections)}

\* C2: a returned snapshot with fetch_ok = false has no sections and a
\* non-empty error_msg; one with fetch_ok = true has an empty error_msg.
C2_SnapshotInvariant ==
    Returned =>
        /\ ~snapshot.fetch_ok => (snapshot.sections = <<>> /\ snapshot.error_msg # "")
        /\ snapshot.fetch_ok => snapshot.error_msg = ""

\* the threshold function of the description
ThresholdStatus(pct) ==
    CASE pct >= 100 -> "full"
      [] 80 <= pct /\ pct < 100 -> "almost_full"
      [] 50 <= pct /\ pct < 80 -> "crowded"
      [] pct < 50 -> "available"

\* C3: in every section, a present occupancy_pct determines the status by
\* the threshold function (filename, OCR and color paths alike).
C3_StatusFromPct ==
    \A s \in SectionsOf(snapshot) :
        s.occupancy_pct # None => s.status = ThresholdStatus(s.occupancy_pct)

\* the color path substituted the estimate 65 for "crowded"
C3_Witness ==
    /\ script = "rycom" /\ pc = "done"
    /\ colorOut = <<"crowded", "yellow">>
    /\ \E s \in SectionsOf(snapshot) :
          s.detection_method = "color" /\ s.occupancy_pct = 65 /\ s.status = "crowded"

\* C4: in every section, occupancy_pct is none or an integer in 0..100.
C4_PctInRange ==
    \A s \in SectionsOf(snapshot) :
        s.occupancy_pct = None \/ (0 <= s.occupancy_pct /\ s.occupancy_pct <= 100)

RycomReturnedOk == script = "rycom" /\ Returned /\ snapshot.fetch_ok

\* C5: after a successful fetch rycom produces exactly one section, with
\* detection_method "ocr" exactly when try_ocr returned a percentage;
\* otherwise the color path ran and the method is "color"; the color path
\* never runs when try_ocr returned a percentage.
C5_OcrThenColor ==
    /\ (script = "rycom" /\ colorOut[2] # "not_run") => ocrOut[1] = None
    /\ RycomReturnedOk =>
          /\ Len(snapshot.sections) = 1
          /\ (snapshot.sections[1].detection_method = "ocr") = (ocrOut[1] # None)
          /\ ocrOut[1] = None =>
                /\ colorOut[2] # "not_run"
                /\ snapshot.sections[1].detection_method = "color"
          /\ ocrOut[1] # None => colorOut[2] = "not_run"

\* text was recognised but held no number, and the color path took over
C5_Witness ==
    /\ RycomReturnedOk /\ pc = "done" /\ tesseract
    /\ ocrOut = <<None, <<"a">>>>
    /\ colorOut = <<"full", "red">>
    /\ snapshot.sections[1].detection_method = "color"

\* C6: when neither path gives a signal the section has no percentage and
\* status unknown, with detection_method "color" when the color path counted
\* zero informative pixels and "none" when the color path itself errored.
C6_BothFail ==
    (RycomReturnedOk /\ ocrOut[1] = None /\ colorOut[2] \in {"none", "error"}) =>
        /\ snapshot.sections[1].occupancy_pct = None
        /\ snapshot.sections[1].status = "unknown"
        /\ colorOut[2] = "none" => snapshot.sections[1].detection_method = "color"
        /\ colorOut[2] = "error" => snapshot.sections[1].detection_method = "none"

\* ---- main ----------------------------------------------------------------
\* C8: in single-shot mode main exits with code 1 when the snapshot has
\* fetch_ok = false and with code 0 otherwise.
C8_ExitCode ==
    (pc = "done" /\ ~args.loop) =>
        exit_code = (IF Returned /\ ~snapshot.fetch_ok THEN 1 ELSE 0)

\* the parts of C9 that do not concern the logged count
C9_Iterations ==
    script = "parcocity" =>
        \* without --loop: one iteration, no sleep, then the end
        /\ ~args.loop => (iters <= 1 /\ sleeps = 0)
        /\ (~args.loop /\ pc = "done" /\ interruptedAt = "never") =>
              (iters = 1 /\ completed = 1)
        \* with --loop: only the signal ends the loop, failed fetch or not
        /\ (args.loop /\ pc \in {"end", "done"}) => interruptedAt # "never"
        \* one sleep between consecutive iterations
        /\ iters = sleeps + (IF pc = "fetch" \/ interruptedAt = "fetch" THEN 0 ELSE 1)
        /\ completed <= iters

\* C9 as claimed: one iteration without --loop; with --loop the iterations
\* repeat with one sleep in between and end only on the signal, wherever it
\* arrives, and the logged count is the number of iterations whose fetch and
\* save both finished.
C9_LoopAsClaimed ==
    /\ C9_Iterations
    /\ (script = "parcocity" /\ pc = "done") => logged = completed

\* C9 amended: the logged count is the number of iterations whose fetch and
\* save both finished, less one when the signal arrived after the save and
\* before count was incremented.
C9_Loop ==
    /\ C9_Iterations
    /\ (script = "parcocity" /\ pc = "done") =>
          logged = completed - (IF interruptedAt = "count" THEN 1 ELSE 0)

\* a loop that went on after a failed fetch and was stopped during a sleep
C9_Witness ==
    /\ script = "parcocity" /\ args.loop /\ pc = "done"
    /\ interruptedAt = "sleep"
    /\ Len(jsonl) = 2 /\ ~jsonl[1].fetch_ok
    /\ logged = 2 /\ sleeps = 1

\* ---- save_csv ------------------------------------------------------------
\* the rows of the snapshots saved by the first n calls, in order
RECURSIVE RowsOfCalls(_, _)
RowsOfCalls(records, n) ==
    IF n = 0 THEN <<>>
    ELSE RowsOfCalls(records, n - 1) \o CsvRows(records[n])

\* save_csv calls that have finished (none in --status-file mode)
CsvCalls == IF args.status_file THEN 0 ELSE completed

\* C10: starting from an absent file, after any number of save_csv calls the
\* file is the header line followed by the rows of each call's sections, in
\* call order: the header occurs once, first, and earlier lines stay.
C10_CsvAppendOnly ==
    script = "parcocity" =>
        /\ csvExists = (CsvCalls > 0)
        /\ ~csvExists => csv = <<>>
        /\ csvExists =>
              /\ csv[1] = CsvHeader
              /\ \A i \in 2 .. Len(csv) : csv[i].kind = "row"
              /\ SubSeq(csv, 2, Len(csv)) = RowsOfCalls(jsonl, CsvCalls)

\* the first call had a failed snapshot (header only), the second one a row
C10_Witness ==
    /\ script = "parcocity" /\ CsvCalls = 2
    /\ ~jsonl[1].fetch_ok /\ jsonl[2].fetch_ok
    /\ Len(csv) = 2 /\ csv[1] = CsvHeader /\ csv[2].kind = "row"

\* ---- try_color_analysis ----------------------------------------------------
\* the hue ranges of the buckets as described
InBucket(b, hue) ==
    CASE b = "red" -> hue < 15 \/ hue >= 345
      [] b = "orange" -> 15 <= hue /\ hue < 45
      [] b = "yellow" -> 45 <= hue /\ hue < 75
      [] b = "green" -> 75 <= hue /\ hue < 165
      [] b = "other" -> 165 <= hue /\ hue < 345

\* number of informative pixels of the image in bucket b
InformativeIn(pixels, b) ==
    Cardinality({i \in 1 .. Len(pixels) :
                    /\ pixels[i].s >= 3 /\ pixels[i].v >= 3
                    /\ InBucket(b, pixels[i].hue)})

DescribedColorStatus ==
    [red |-> "full", orange |-> "almost_full", yellow |-> "crowded",
     green |-> "available", other |-> "unknown"]

AllBuckets == {"red", "orange", "yellow", "green", "other"}

ColorAnalysisReturned == pc = "return" /\ fn = "color_analysis"

\* C11: whatever the informative pixels per hue bucket, try_color_analysis
\* returns a bucket no other bucket outnumbers, with the status mapped to it
\* (green available, yellow crowded, orange almost_full, red full, other
\* unknown); with no informative pixel it returns (unknown, "none").
C11_DominantColor ==
    ColorAnalysisReturned =>
        IF \A b \in AllBuckets : InformativeIn(arg, b) = 0
        THEN res = <<"unknown", "none">>
        ELSE /\ res[2] \in AllBuckets
             /\ \A b \in AllBuckets : InformativeIn(arg, b) <= InformativeIn(arg, res[2])
             /\ res[1] = DescribedColorStatus[res[2]]

\* two pixels at the first hue of "other" outnumber one red pixel
C11_Witness ==
    /\ ColorAnalysisReturned
    /\ InformativeIn(arg, "other") = 2 /\ InformativeIn(arg, "red") = 1
    /\ res = <<"unknown", "other">>

====
